---- MODULE Spec2Model ----
(***************************************************************************)
(* Model of the DPM86XX driver (src/dpm86xx/dpm86xx.py): the command       *)
(* codec (make_command and the typed builders) and the device session      *)
(* (one write followed by one read_until per operation).                   *)
(*                                                                         *)
(* Python values are modelled as follows.                                  *)
(*   str    a sequence of one-character strings                            *)
(*   bytes  a sequence of byte values 0..255                               *)
(*   int    an integer                                                     *)
(*   number a record [t, neg, n, k]: t = "int" is the integer +-n,         *)
(*          t = "float" is the double nearest to the literal +-n / 10^k,   *)
(*          t = "bool" is False (n = 0) or True (n = 1)                    *)
(*   None   the empty tuple <<>>, an optional int n the tuple <<n>>        *)
(***************************************************************************)
EXTENDS Integers, Sequences, FiniteSets, TLC

VARIABLES
    self_address,   \* self._address
    self_port,      \* self._port: "unset" while the attribute does not exist, else a channel
    wire,           \* the channel calls made so far, in order: <<channel, "write" | "read_until">>
    sent,           \* the bytes of the last write
    response,       \* the bytes the last read_until returned
    call,           \* the last call: [fn |-> name, args |-> arguments]
    ret             \* its outcome

vars == <<self_address, self_port, wire, sent, response, call, ret>>

(***************************************************************************)
(* Bounds of the model.                                                    *)
(***************************************************************************)
\* how far beyond each edge of a valid range the sampled arguments reach
Margin == 1
\* number of channel events (writes and reads) a session run may log
MaxEvents == 4
\* longest numeric payload (bytes between offset 7 and the last 3) of a response
MaxPayload == 3

(***************************************************************************)
(* Text and bytes.                                                         *)
(***************************************************************************)
DigitChars == <<"0", "1", "2", "3", "4", "5", "6", "7", "8", "9">>

\* str(n) / f'{n}' for an int n
RECURSIVE Decimal(_)
Decimal(n) ==
    IF n < 0 THEN <<"-">> \o Decimal(-n)
    ELSE IF n < 10 THEN <<DigitChars[n + 1]>>
    ELSE Decimal(n \div 10) \o <<DigitChars[(n % 10) + 1]>>

\* f'{n:02d}': sign first, then zero fill up to a total width of 2
Pad02d_unpadded(n) == Decimal(n)
Pad02d(n) ==
    IF n >= 0 /\ Len(Decimal(n)) < 2 THEN <<"0">> \o Decimal(n) ELSE Decimal(n)

\* the code point of a character, which is its UTF-8 byte for 7-bit ASCII
Ord(c) ==
    CASE c = "0" -> 48 [] c = "1" -> 49 [] c = "2" -> 50 [] c = "3" -> 51
      [] c = "4" -> 52 [] c = "5" -> 53 [] c = "6" -> 54 [] c = "7" -> 55
      [] c = "8" -> 56 [] c = "9" -> 57
      [] c = ":" -> 58 [] c = "=" -> 61 [] c = "," -> 44 [] c = "-" -> 45
      [] c = "+" -> 43 [] c = " " -> 32 [] c = "_" -> 95
      [] c = "\r" -> 13 [] c = "\n" -> 10
      [] c = "r" -> 114 [] c = "w" -> 119 [] c = "o" -> 111 [] c = "k" -> 107
      [] c = "x" -> 120 [] c = "R" -> 82

\* str.encode(): one byte per (ASCII) character
Encode(s) == [i \in 1..Len(s) |-> Ord(s[i])]

(***************************************************************************)
(* Outcomes of a call: a returned value (of the kind named) or a raised    *)
(* exception.                                                              *)
(***************************************************************************)
NoResult == [exc |-> "none", msg |-> "", kind |-> "None", frame |-> <<>>, num |-> 0,
             flag |-> FALSE, flt |-> [neg |-> FALSE, m |-> <<>>, e |-> 0]]

Returns(bytes)  == [NoResult EXCEPT !.kind = "bytes", !.frame = bytes]

ReturnsInt(n)   == [NoResult EXCEPT !.kind = "int", !.num = n]

ReturnsBool(b)  == [NoResult EXCEPT !.kind = "bool", !.flag = b]

ReturnsFloat(f) == [NoResult EXCEPT !.kind = "float", !.flt = f]

Raises(e, m)    == [NoResult EXCEPT !.exc = e, !.msg = m]

(***************************************************************************)
(* DPM86XX.make_command                                                    *)
(***************************************************************************)
\* an address check that lets three digits through
AddressInRange_three_digits(address) == 1 <= address /\ address <= 999

AddressInRange(address) == 1 <= address /\ address <= 99

MemberInRange(function_member) == 0 <= function_member /\ function_member <= 99

OperandInRange_exclusive(operand) == 0 <= operand /\ operand < 65536
OperandInRange(operand) == 0 <= operand /\ operand <= 65536

FunctionValid(function) == function \in {<<"r">>, <<"w">>}

\* the f-string of the return statement; operand is already text
CommandText(address, function, function_member, operand) ==
    <<":">> \o Pad02d(address) \o function \o Pad02d(function_member)
            \o <<"=">> \o operand \o <<",", "\r", "\n">>

make_command_function_first(address, function, function_member, operand, operand2) ==
    IF ~FunctionValid(function)
    THEN Raises("ValueError", "Function must be either 'r' or 'w'.")
    ELSE IF ~AddressInRange(address)
    THEN Raises("ValueError", "Address must be in the range of 1 - 99.")
    ELSE IF ~MemberInRange(function_member)
    THEN Raises("ValueError", "Function member must be in the range of 0 - 99.")
    ELSE IF ~OperandInRange(operand)
    THEN Raises("ValueError", "Operand must be in the range of 0 - 65536.")
    ELSE IF operand2 # <<>> /\ ~OperandInRange(operand2[1])
    THEN Raises("ValueError", "2nd operand must be in the range of 0 - 65536.")
    ELSE Returns(Encode(CommandText(address, function, function_member,
            IF operand2 # <<>>
            THEN Decimal(operand) \o <<",">> \o Decimal(operand2[1])
            ELSE Decimal(operand))))

make_command(address, function, function_member, operand, operand2) ==
    IF ~AddressInRange(address)
    THEN Raises("ValueError", "Address must be in the range of 1 - 99.")
    ELSE IF ~MemberInRange(function_member)
    THEN Raises("ValueError", "Function member must be in the range of 0 - 99.")
    ELSE IF ~OperandInRange(operand)
    THEN Raises("ValueError", "Operand must be in the range of 0 - 65536.")
    ELSE IF operand2 # <<>> /\ ~OperandInRange(operand2[1])
    THEN Raises("ValueError", "2nd operand must be in the range of 0 - 65536.")
    ELSE IF ~FunctionValid(function)
    THEN Raises("ValueError", "Function must be either 'r' or 'w'.")
    ELSE Returns(Encode(CommandText(address, function, function_member,
            IF operand2 # <<>>
            THEN Decimal(operand) \o <<",">> \o Decimal(operand2[1])
            ELSE Decimal(operand))))

(***************************************************************************)
(* Python floats are IEEE 754 doubles.  A double is modelled exactly as    *)
(* [neg, m, e]: the value (-1)^neg * m * 2^e with m a natural number of at *)
(* most 53 bits, written as a little-endian sequence of limbs.             *)
(***************************************************************************)
\* limb radix: a limb times a small factor stays inside TLC's integers
Radix == 2^16

\* significand width of a double
Precision == 52 + 1

RECURSIVE BigNorm(_)
BigNorm(b) ==
    IF b # <<>> /\ b[Len(b)] = 0 THEN BigNorm(SubSeq(b, 1, Len(b) - 1)) ELSE b

RECURSIVE BigOfNat(_)
BigOfNat(n) == IF n = 0 THEN <<>> ELSE <<n % Radix>> \o BigOfNat(n \div Radix)

RECURSIVE BigToNat(_)
BigToNat(b) == IF b = <<>> THEN 0 ELSE b[1] + Radix * BigToNat(Tail(b))

RECURSIVE BigMulCarry(_, _, _)
BigMulCarry(b, c, carry) ==
    IF b = <<>> THEN BigOfNat(carry)
    ELSE <<(b[1] * c + carry) % Radix>>
         \o BigMulCarry(Tail(b), c, (b[1] * c + carry) \div Radix)

\* b * c for a small natural c
BigMulSmall(b, c) == BigNorm(BigMulCarry(b, c, 0))

\* <<quotient limbs (most significant first in the recursion), remainder>>
RECURSIVE BigDivRem(_, _, _, _)
BigDivRem(b, d, i, rem) ==
    IF i = 0 THEN [q |-> <<>>, r |-> rem]
    ELSE LET cur  == rem * Radix + b[i]
             rest == BigDivRem(b, d, i - 1, cur % d)
         IN [q |-> rest.q \o <<cur \div d>>, r |-> rest.r]

\* floor(b / d) and b mod d for a small positive d
BigDivSmall(b, d) ==
    LET qr == BigDivRem(b, d, Len(b), 0) IN [q |-> BigNorm(qr.q), r |-> qr.r]

RECURSIVE BitLenNat(_)
BitLenNat(n) == IF n = 0 THEN 0 ELSE 1 + BitLenNat(n \div 2)

BigBitLen(b) == IF b = <<>> THEN 0 ELSE 16 * (Len(b) - 1) + BitLenNat(b[Len(b)])

BigIsOdd(b) == b # <<>> /\ b[1] % 2 = 1

\* b + 1
RECURSIVE BigInc(_)
BigInc(b) ==
    IF b = <<>> THEN <<1>>
    ELSE IF b[1] + 1 < Radix THEN <<b[1] + 1>> \o Tail(b)
    ELSE <<0>> \o BigInc(Tail(b))

\* b * 2^s
RECURSIVE BigShl(_, _)
BigShl(b, s) ==
    IF b = <<>> THEN <<>>
    ELSE IF s >= 16 THEN <<0>> \o BigShl(b, s - 16)
    ELSE BigMulSmall(b, 2^s)

\* floor(b / 2^s)
RECURSIVE BigShr(_, _)
BigShr(b, s) ==
    IF b = <<>> THEN <<>>
    ELSE IF s >= 16 THEN BigShr(Tail(b), s - 16)
    ELSE BigDivSmall(b, 2^s).q

\* a nonzero quotient q with remainder r of a division by d (r < d),
\* rounded to the nearest natural, ties to even
RoundHalfEven(q, r, d) ==
    IF 2 * r > d \/ (2 * r = d /\ BigIsOdd(q)) THEN BigInc(q) ELSE q

RECURSIVE Pow10(_)
Pow10(k) == IF k = 0 THEN 1 ELSE 10 * Pow10(k - 1)

\* the double nearest to n / 10^k (n a natural, n > 0), which is what the
\* Python literal denotes: m = round(n * 2^t / 10^k) with 53 bits, e = -t
FloatOfDecimal(neg, n, k) ==
    IF n = 0 THEN [neg |-> neg, m |-> <<>>, e |-> 0]
    ELSE LET d  == Pow10(k)
             t0 == Precision + BitLenNat(d) - BitLenNat(n)
             t  == CHOOSE x \in (t0 - 1)..(t0 + 1) :
                     BigBitLen(BigDivSmall(BigShl(BigOfNat(n), x), d).q) = Precision
             qr == BigDivSmall(BigShl(BigOfNat(n), t), d)
         IN [neg |-> neg, m |-> RoundHalfEven(qr.q, qr.r, d), e |-> -t]

\* f * c for a float f and an int c > 0: c is converted to a double exactly,
\* the exact product is rounded to 53 bits, ties to even
FloatMulInt(f, c) ==
    LET p == BigMulSmall(f.m, c)
        s == BigBitLen(p) - Precision
    IN IF s <= 0 THEN [neg |-> f.neg, m |-> p, e |-> f.e]
       ELSE LET qr == BigDivSmall(p, 2^s)
            IN [neg |-> f.neg, m |-> RoundHalfEven(qr.q, qr.r, 2^s), e |-> f.e + s]

\* int(f): truncation toward zero
IntOfFloat(f) ==
    LET mag == IF f.e >= 0 THEN BigToNat(BigShl(f.m, f.e))
               ELSE BigToNat(BigShr(f.m, -f.e))
    IN IF f.neg THEN -mag ELSE mag

(***************************************************************************)
(* Numbers passed to the typed builders.                                   *)
(***************************************************************************)
IntArg(i)            == [t |-> "int", neg |-> i < 0, n |-> IF i < 0 THEN -i ELSE i, k |-> 0]
FloatArg(neg, n, k)  == [t |-> "float", neg |-> neg, n |-> n, k |-> k]
BoolArg(b)           == [t |-> "bool", neg |-> FALSE, n |-> IF b THEN 1 ELSE 0, k |-> 0]

\* the int held by an int or bool argument
IntValue(x) == IF x.neg THEN -x.n ELSE x.n

\* the double held by a float argument
FloatValue(x) == FloatOfDecimal(x.neg, x.n, x.k)

(***************************************************************************)
(* The typed write builders.                                               *)
(***************************************************************************)
\* int(x * c) when x is a float, x itself when it is an int
Scaled(x, c) ==
    IF x.t = "float" THEN IntOfFloat(FloatMulInt(FloatValue(x), c)) ELSE IntValue(x)

VoltageInRange(voltage) == 0 <= voltage /\ voltage <= 6000

CurrentInRange(current) == 0 <= current /\ current <= 24000

make_write_voltage_command(address, voltage) ==
    LET centivolts == Scaled(voltage, 100)
    IN IF ~VoltageInRange(centivolts)
       THEN Raises("ValueError", "Voltage must be in the range of 0.00 to 60.00 V")
       ELSE make_command(address, <<"w">>, 10, centivolts, <<>>)

make_write_current_command(address, current) ==
    LET milliamperes == Scaled(current, 1000)
    IN IF ~CurrentInRange(milliamperes)
       THEN Raises("ValueError", "Current must be in the range of 0.000 to 24.000 A")
       ELSE make_command(address, <<"w">>, 11, milliamperes, <<>>)

\* an int is first turned into the bool (not status == 0); then 1 if status else 0
StatusOperand_passthrough(status) ==
    IF status.t = "int" THEN IntValue(status) ELSE status.n
StatusOperand(status) ==
    IF status.t = "int"
    THEN (IF ~(IntValue(status) = 0) THEN 1 ELSE 0)
    ELSE (IF status.n # 0 THEN 1 ELSE 0)

make_write_output_status_command(address, status) ==
    make_command(address, <<"w">>, 12, StatusOperand(status), <<>>)

make_write_voltage_and_current_command(address, voltage, current) ==
    LET centivolts   == Scaled(voltage, 100)
        milliamperes == Scaled(current, 1000)
    IN IF ~VoltageInRange(centivolts)
       THEN Raises("ValueError", "Voltage must be in the range of 0.00 to 60.00 V")
       ELSE IF ~CurrentInRange(milliamperes)
       THEN Raises("ValueError", "Current must be in the range of 0.000 to 24.000 A")
       ELSE make_command(address, <<"w">>, 20, centivolts, <<milliamperes>>)

(***************************************************************************)
(* The typed read builders.                                                *)
(***************************************************************************)
make_read_maximum_output_voltage_command(address) == make_command(address, <<"r">>, 0, 0, <<>>)

make_read_maximum_output_current_command(address) == make_command(address, <<"r">>, 1, 0, <<>>)

make_read_voltage_setting_command(address) == make_command(address, <<"r">>, 10, 0, <<>>)

make_read_current_setting_command(address) == make_command(address, <<"r">>, 11, 0, <<>>)

make_read_output_status_command(address) == make_command(address, <<"r">>, 12, 0, <<>>)

make_read_actual_voltage_command(address) == make_command(address, <<"r">>, 30, 0, <<>>)

make_read_actual_current_command(address) == make_command(address, <<"r">>, 31, 0, <<>>)

make_read_cc_cv_status_command(address) == make_command(address, <<"r">>, 32, 0, <<>>)

make_read_temperature_command_actual_voltage(address) == make_command(address, <<"r">>, 30, 0, <<>>)
make_read_temperature_command(address) == make_command(address, <<"r">>, 33, 0, <<>>)

(***************************************************************************)
(* Arguments the calls are tried with.                                     *)
(***************************************************************************)
\* the integers within Margin of either edge of lo..hi
Around(lo, hi) == ((lo - Margin)..(lo + Margin)) \cup ((hi - Margin)..(hi + Margin))

Addresses == Around(1, 99) \cup {9, 10, 42}

Functions == {<<"r">>, <<"w">>, <<"x">>, <<"R">>, <<>>, <<"r", "w">>}

Members == Around(0, 99) \cup {9, 10, 33}

Operands == Around(0, 65536) \cup {9, 10, 99, 100, 999, 1000, 9999, 10000, 12345}

Operand2s == {<<>>} \cup {<<o>> : o \in Around(0, 65536) \cup {12345}}

\* int arguments in centivolts, float arguments in volts
Voltages ==
    {IntArg(i) : i \in Around(0, 6000) \cup {1234, 7030, -1234}}
    \cup {FloatArg(neg, n, 2) : neg \in BOOLEAN,
                                n \in (0..120) \cup Around(1234, 6000) \cup {7030}}
    \cup {FloatArg(neg, n, 3) : neg \in BOOLEAN, n \in {5, 9, 12345, 59995, 60005}}

\* int arguments in milliamperes, float arguments in amperes
Currents ==
    {IntArg(i) : i \in Around(0, 24000) \cup {12345, 25000}}
    \cup {FloatArg(neg, n, 3) : neg \in BOOLEAN,
                                n \in (1000..1030) \cup Around(Margin, 24000) \cup {12345, 25000}}
    \cup {FloatArg(neg, n, 4) : neg \in BOOLEAN, n \in {5, 9, 123455, 239995, 240005}}

Statuses ==
    {BoolArg(b) : b \in BOOLEAN}
    \cup {IntArg(i) : i \in Around(0, 65536) \cup {2, -7}}

Called(fn, args) == [fn |-> fn, args |-> args]

\* the codec keeps no state between calls: each call is tried on its own
NoCallYet == call.fn = "none"

SessionUnchanged == UNCHANGED <<self_address, self_port, wire, sent, response>>

(***************************************************************************)
(* Calls of the codec: static and class methods, no session involved.      *)
(***************************************************************************)
CodecInit ==
    /\ self_address = 1
    /\ self_port = "unset"
    /\ wire = <<>>
    /\ sent = <<>>
    /\ response = <<>>
    /\ call = Called("none", <<>>)
    /\ ret = NoResult

CallMakeCommand ==
    /\ NoCallYet
    /\ \E address \in Addresses, function \in Functions, function_member \in Members,
          operand \in Operands, operand2 \in Operand2s :
           /\ call' = Called("make_command",
                             <<address, function, function_member, operand, operand2>>)
           /\ ret' = make_command(address, function, function_member, operand, operand2)
           /\ SessionUnchanged

CallMakeWriteVoltage ==
    /\ NoCallYet
    /\ \E address \in Addresses, voltage \in Voltages :
           /\ call' = Called("make_write_voltage_command", <<address, voltage>>)
           /\ ret' = make_write_voltage_command(address, voltage)
           /\ SessionUnchanged

CallMakeWriteCurrent ==
    /\ NoCallYet
    /\ \E address \in Addresses, current \in Currents :
           /\ call' = Called("make_write_current_command", <<address, current>>)
           /\ ret' = make_write_current_command(address, current)
           /\ SessionUnchanged

CallMakeWriteOutputStatus ==
    /\ NoCallYet
    /\ \E address \in Addresses, status \in Statuses :
           /\ call' = Called("make_write_output_status_command", <<address, status>>)
           /\ ret' = make_write_output_status_command(address, status)
           /\ SessionUnchanged

\* the pairs are sampled more thinly than the single quantities
PairVoltages ==
    {IntArg(i) : i \in Around(0, 6000) \cup {1234}}
    \cup {FloatArg(neg, n, k) : neg \in BOOLEAN, n \in {5, 29, 1234, 7030}, k \in {2, 3}}

PairCurrents ==
    {IntArg(i) : i \in Around(0, 24000) \cup {12345}}
    \cup {FloatArg(neg, n, k) : neg \in BOOLEAN, n \in {5, 1001, 12345, 250000}, k \in {3, 4}}

CallMakeWriteVoltageAndCurrent ==
    /\ NoCallYet
    /\ \E address \in Addresses, voltage \in PairVoltages, current \in PairCurrents :
           /\ call' = Called("make_write_voltage_and_current_command",
                             <<address, voltage, current>>)
           /\ ret' = make_write_voltage_and_current_command(address, voltage, current)
           /\ SessionUnchanged

CallMakeReadMaximumOutputVoltage ==
    /\ NoCallYet
    /\ \E address \in Addresses :
           /\ call' = Called("make_read_maximum_output_voltage_command", <<address>>)
           /\ ret' = make_read_maximum_output_voltage_command(address)
           /\ SessionUnchanged

CallMakeReadMaximumOutputCurrent ==
    /\ NoCallYet
    /\ \E address \in Addresses :
           /\ call' = Called("make_read_maximum_output_current_command", <<address>>)
           /\ ret' = make_read_maximum_output_current_command(address)
           /\ SessionUnchanged

CallMakeReadVoltageSetting ==
    /\ NoCallYet
    /\ \E address \in Addresses :
           /\ call' = Called("make_read_voltage_setting_command", <<address>>)
           /\ ret' = make_read_voltage_setting_command(address)
           /\ SessionUnchanged

CallMakeReadCurrentSetting ==
    /\ NoCallYet
    /\ \E address \in Addresses :
           /\ call' = Called("make_read_current_setting_command", <<address>>)
           /\ ret' = make_read_current_setting_command(address)
           /\ SessionUnchanged

CallMakeReadOutputStatus ==
    /\ NoCallYet
    /\ \E address \in Addresses :
           /\ call' = Called("make_read_output_status_command", <<address>>)
           /\ ret' = make_read_output_status_command(address)
           /\ SessionUnchanged

CallMakeReadActualVoltage ==
    /\ NoCallYet
    /\ \E address \in Addresses :
           /\ call' = Called("make_read_actual_voltage_command", <<address>>)
           /\ ret' = make_read_actual_voltage_command(address)
           /\ SessionUnchanged

CallMakeReadActualCurrent ==
    /\ NoCallYet
    /\ \E address \in Addresses :
           /\ call' = Called("make_read_actual_current_command", <<address>>)
           /\ ret' = make_read_actual_current_command(address)
           /\ SessionUnchanged

CallMakeReadCcCvStatus ==
    /\ NoCallYet
    /\ \E address \in Addresses :
           /\ call' = Called("make_read_cc_cv_status_command", <<address>>)
           /\ ret' = make_read_cc_cv_status_command(address)
           /\ SessionUnchanged

CallMakeReadTemperature ==
    /\ NoCallYet
    /\ \E address \in Addresses :
           /\ call' = Called("make_read_temperature_command", <<address>>)
           /\ ret' = make_read_temperature_command(address)
           /\ SessionUnchanged

CodecNext ==
    \/ CallMakeCommand
    \/ CallMakeWriteVoltage
    \/ CallMakeWriteCurrent
    \/ CallMakeWriteOutputStatus
    \/ CallMakeWriteVoltageAndCurrent
    \/ CallMakeReadMaximumOutputVoltage
    \/ CallMakeReadMaximumOutputCurrent
    \/ CallMakeReadVoltageSetting
    \/ CallMakeReadCurrentSetting
    \/ CallMakeReadOutputStatus
    \/ CallMakeReadActualVoltage
    \/ CallMakeReadActualCurrent
    \/ CallMakeReadCcCvStatus
    \/ CallMakeReadTemperature

CodecSpec == CodecInit /\ [][CodecNext]_vars

(***************************************************************************)
(* int(bytes): optional surrounding whitespace, an optional sign, decimal  *)
(* digits with single underscores allowed between two digits.              *)
(***************************************************************************)
IsSpaceByte(b) == b \in {9, 10, 11, 12, 13, 32}

RECURSIVE LStrip(_)
LStrip(b) == IF b # <<>> /\ IsSpaceByte(b[1]) THEN LStrip(Tail(b)) ELSE b

RECURSIVE RStrip(_)
RStrip(b) ==
    IF b # <<>> /\ IsSpaceByte(b[Len(b)]) THEN RStrip(SubSeq(b, 1, Len(b) - 1)) ELSE b

IsDigit(b) == 48 <= b /\ b <= 57

RECURSIVE DigitsValue(_)
DigitsValue(b) ==
    IF b = <<>> THEN 0 ELSE 10 * DigitsValue(SubSeq(b, 1, Len(b) - 1)) + (b[Len(b)] - 48)

ParseInt(b) ==
    LET core   == RStrip(LStrip(b))
        signed == core # <<>> /\ core[1] \in {43, 45}
        body   == IF signed THEN Tail(core) ELSE core
        wellFormed ==
            /\ body # <<>>
            /\ \A i \in 1..Len(body) :
                   \/ IsDigit(body[i])
                   \/ /\ body[i] = 95
                      /\ 1 < i /\ i < Len(body)
                      /\ IsDigit(body[i - 1]) /\ IsDigit(body[i + 1])
        magnitude == DigitsValue(SelectSeq(body, IsDigit))
    IN [ok  |-> wellFormed,
        val |-> IF ~wellFormed THEN 0
                ELSE IF core[1] = 45 THEN -magnitude ELSE magnitude]

(***************************************************************************)
(* The device session.                                                     *)
(***************************************************************************)
Channels == {"A", "B"}

\* b':01ok\r\n'
AckBytes == <<58, 48, 49, 111, 107, 13, 10>>

\* an extraction that starts one byte early, at the '='
Payload_from_offset_6(r) == SubSeq(r, 7, Len(r) - 3)

\* response[7:-3]
Payload(r) == SubSeq(r, 8, Len(r) - 3)

\* a read that insists on the ':' and on the ',' CR LF around the number
NumericReply_checks_frame(r) ==
    IF Len(r) < 11
    THEN Raises("IOError", "Response is too short")
    ELSE LET parsed == ParseInt(Payload(r))
         IN IF parsed.ok /\ r[1] = 58 /\ SubSeq(r, Len(r) - 2, Len(r)) = <<44, 13, 10>>
            THEN ReturnsInt(parsed.val)
            ELSE Raises("ValueError", "invalid literal for int() with base 10")

\* the length test, the slice and int() of a read operation
NumericReply_short10(r) ==
    IF Len(r) < 10
    THEN Raises("IOError", "Response is too short")
    ELSE LET parsed == ParseInt(Payload(r))
         IN IF parsed.ok THEN ReturnsInt(parsed.val)
            ELSE Raises("ValueError", "invalid literal for int() with base 10")
NumericReply(r) ==
    IF Len(r) < 11
    THEN Raises("IOError", "Response is too short")
    ELSE LET parsed == ParseInt(Payload(r))
         IN IF parsed.ok THEN ReturnsInt(parsed.val)
            ELSE Raises("ValueError", "invalid literal for int() with base 10")

\* a status read for which every non-zero integer means enabled
OutputStatusReply_nonzero(r) ==
    LET o == NumericReply(r) IN IF o.exc # "none" THEN o ELSE ReturnsBool(o.num # 0)

\* result == 1
OutputStatusReply(r) ==
    LET o == NumericReply(r) IN IF o.exc # "none" THEN o ELSE ReturnsBool(o.num = 1)

\* a mode read that takes 1 for constant voltage
CcCvReply_one_is_cv(r) ==
    LET o == NumericReply(r) IN IF o.exc # "none" THEN o ELSE ReturnsBool(o.num = 1)

\* result == 0: 1 means CC (constant current), 0 means CV (constant voltage)
CcCvReply(r) ==
    LET o == NumericReply(r) IN IF o.exc # "none" THEN o ELSE ReturnsBool(o.num = 0)

\* not self.get_cc_cv_status()
NotCcCvReply(r) ==
    LET o == CcCvReply(r) IN IF o.exc # "none" THEN o ELSE ReturnsBool(~o.flag)

\* result / 100.0, result / 1000.0: the double nearest to the quotient
QuotientReply(r, k) ==
    LET o == NumericReply(r)
    IN IF o.exc # "none" THEN o
       ELSE ReturnsFloat(FloatOfDecimal(o.num < 0, IF o.num < 0 THEN -o.num ELSE o.num, k))

\* an acknowledgment check that ignores the address echo
AckReply_any_address(r) ==
    ReturnsBool(Len(r) = 7 /\ r[1] = 58 /\ SubSeq(r, 4, 7) = SubSeq(AckBytes, 4, 7))

\* response == b':01ok\r\n'
AckReply(r) == ReturnsBool(r = AckBytes)

\* a set_voltage that leaves an int as it is
AsFloat_keep_int(x) == x

\* float(voltage) of set_voltage for a value that is not a float
AsFloat(x) == IF x.t = "float" THEN x ELSE FloatArg(x.neg, x.n, 0)

\* int(current * 1000) of set_current
AsMilliampere(x) ==
    IntArg(IF x.t = "float" THEN Scaled(x, 1000) ELSE IntValue(x) * 1000)

NoIO == UNCHANGED <<wire, sent, response>>

\* the exception raised before any I/O, if there is one: the assert on
\* self._port comes first, then the builder's validation
Refused(command) == self_port = "unset" \/ command.exc # "none"

Refusal(command) ==
    IF self_port = "unset"
    THEN Raises("AttributeError", "'DPM86XX' object has no attribute '_port'")
    ELSE command

\* an exchange that reads the response twice
Transact_read_twice(command, replies) ==
    /\ UNCHANGED <<self_address, self_port>>
    /\ IF Refused(command)
       THEN NoIO
       ELSE \E r \in replies :
              /\ wire' = wire \o << <<self_port, "write">>, <<self_port, "read_until">>,
                                    <<self_port, "read_until">> >>
              /\ sent' = command.frame
              /\ response' = r

\* self._port.write(command); response = self._port.read_until(b'\r\n')
Transact(command, replies) ==
    /\ UNCHANGED <<self_address, self_port>>
    /\ IF Refused(command)
       THEN NoIO
       ELSE \E r \in replies :
              /\ wire' = wire \o << <<self_port, "write">>, <<self_port, "read_until">> >>
              /\ sent' = command.frame
              /\ response' = r

\* room in the log for one more write and read
CanLog == Len(wire) + 2 <= MaxEvents

get_temperature(replies) ==
    /\ CanLog
    /\ call' = Called("get_temperature", <<>>)
    /\ LET command == make_read_temperature_command(self_address)
       IN /\ Transact(command, replies)
          /\ ret' = IF Refused(command) THEN Refusal(command)
                     ELSE NumericReply(response')

get_actual_voltage_in_centivolts(replies) ==
    /\ CanLog
    /\ call' = Called("get_actual_voltage_in_centivolts", <<>>)
    /\ LET command == make_read_actual_voltage_command(self_address)
       IN /\ Transact(command, replies)
          /\ ret' = IF Refused(command) THEN Refusal(command)
                     ELSE NumericReply(response')

get_actual_voltage(replies) ==
    /\ CanLog
    /\ call' = Called("get_actual_voltage", <<>>)
    /\ LET command == make_read_actual_voltage_command(self_address)
       IN /\ Transact(command, replies)
          /\ ret' = IF Refused(command) THEN Refusal(command)
                     ELSE QuotientReply(response', 2)

get_actual_current_in_milliamperes(replies) ==
    /\ CanLog
    /\ call' = Called("get_actual_current_in_milliamperes", <<>>)
    /\ LET command == make_read_actual_current_command(self_address)
       IN /\ Transact(command, replies)
          /\ ret' = IF Refused(command) THEN Refusal(command)
                     ELSE NumericReply(response')

get_actual_current(replies) ==
    /\ CanLog
    /\ call' = Called("get_actual_current", <<>>)
    /\ LET command == make_read_actual_current_command(self_address)
       IN /\ Transact(command, replies)
          /\ ret' = IF Refused(command) THEN Refusal(command)
                     ELSE QuotientReply(response', 3)

get_output_status(replies) ==
    /\ CanLog
    /\ call' = Called("get_output_status", <<>>)
    /\ LET command == make_read_output_status_command(self_address)
       IN /\ Transact(command, replies)
          /\ ret' = IF Refused(command) THEN Refusal(command)
                     ELSE OutputStatusReply(response')

get_cc_cv_status(replies) ==
    /\ CanLog
    /\ call' = Called("get_cc_cv_status", <<>>)
    /\ LET command == make_read_cc_cv_status_command(self_address)
       IN /\ Transact(command, replies)
          /\ ret' = IF Refused(command) THEN Refusal(command)
                     ELSE CcCvReply(response')

is_in_cv_mode(replies) ==
    /\ CanLog
    /\ call' = Called("is_in_cv_mode", <<>>)
    /\ LET command == make_read_cc_cv_status_command(self_address)
       IN /\ Transact(command, replies)
          /\ ret' = IF Refused(command) THEN Refusal(command)
                     ELSE CcCvReply(response')

is_in_cc_mode(replies) ==
    /\ CanLog
    /\ call' = Called("is_in_cc_mode", <<>>)
    /\ LET command == make_read_cc_cv_status_command(self_address)
       IN /\ Transact(command, replies)
          /\ ret' = IF Refused(command) THEN Refusal(command)
                     ELSE NotCcCvReply(response')

\* arguments of the session's write operations
SessionVoltages ==
    {IntArg(12), IntArg(6000 + Margin), FloatArg(FALSE, 1234, 2), FloatArg(TRUE, 5, 3)}

SessionCurrents == {IntArg(2), IntArg(24000 + Margin), FloatArg(FALSE, 12345, 3)}

SessionStatuses == {BoolArg(FALSE), IntArg(2)}

set_voltage_in_centivolts(replies) ==
    /\ CanLog
    /\ \E voltage_in_centivolts \in SessionVoltages :
          /\ call' = Called("set_voltage_in_centivolts", <<voltage_in_centivolts>>)
          /\ LET command == make_write_voltage_command(self_address, voltage_in_centivolts)
             IN /\ Transact(command, replies)
                /\ ret' = IF Refused(command) THEN Refusal(command)
                           ELSE AckReply(response')

set_voltage(replies) ==
    /\ CanLog
    /\ \E voltage \in SessionVoltages :
          /\ call' = Called("set_voltage", <<voltage>>)
          /\ LET command == make_write_voltage_command(self_address, AsFloat(voltage))
             IN /\ Transact(command, replies)
                /\ ret' = IF Refused(command) THEN Refusal(command)
                           ELSE AckReply(response')

set_current_in_milliampere(replies) ==
    /\ CanLog
    /\ \E current_in_milliampere \in SessionCurrents :
          /\ call' = Called("set_current_in_milliampere", <<current_in_milliampere>>)
          /\ LET command == make_write_current_command(self_address, current_in_milliampere)
             IN /\ Transact(command, replies)
                /\ ret' = IF Refused(command) THEN Refusal(command)
                           ELSE AckReply(response')

set_current(replies) ==
    /\ CanLog
    /\ \E current \in SessionCurrents :
          /\ call' = Called("set_current", <<current>>)
          /\ LET command == make_write_current_command(self_address, AsMilliampere(current))
             IN /\ Transact(command, replies)
                /\ ret' = IF Refused(command) THEN Refusal(command)
                           ELSE AckReply(response')

set_output_status(replies) ==
    /\ CanLog
    /\ \E status \in SessionStatuses :
          /\ call' = Called("set_output_status", <<status>>)
          /\ LET command == make_write_output_status_command(self_address, status)
             IN /\ Transact(command, replies)
                /\ ret' = IF Refused(command) THEN Refusal(command)
                           ELSE AckReply(response')

set_voltage_and_current(replies) ==
    /\ CanLog
    /\ \E voltage \in {FloatArg(FALSE, 50, 1), IntArg(-1), IntArg(12)},
          current \in {IntArg(100), IntArg(24000 + Margin)} :
          /\ call' = Called("set_voltage_and_current", <<voltage, current>>)
          /\ LET command == make_write_voltage_and_current_command(self_address, voltage, current)
             IN /\ Transact(command, replies)
                /\ ret' = IF Refused(command) THEN Refusal(command)
                           ELSE AckReply(response')

\* a set_port that binds only a session that has no channel yet
set_port_first_binding_wins ==
    \E port \in Channels :
        /\ self_port # port
        /\ call' = Called("set_port", <<port>>)
        /\ self_port' = IF self_port = "unset" THEN port ELSE self_port
        /\ ret' = NoResult
        /\ UNCHANGED <<self_address, wire, sent, response>>

\* an existing channel object is kept, a port name opens its channel: either
\* way the session is bound to the channel port stands for
set_port ==
    \E port \in Channels :
        /\ self_port # port
        /\ call' = Called("set_port", <<port>>)
        /\ self_port' = port
        /\ ret' = NoResult
        /\ UNCHANGED <<self_address, wire, sent, response>>

(***************************************************************************)
(* What the device (or a mock channel) may answer.                         *)
(***************************************************************************)
\* ':01r33=' and ':07r30='
ReplyHeaders == {<<58, 48, 49, 114, 51, 51, 61>>, <<58, 48, 55, 114, 51, 48, 61>>}

\* ',\r\n' and 'x\r\n'
ReplyTrailers == {<<44, 13, 10>>, <<120, 13, 10>>}

\* '0' '1' '2' '-' '+' ' ' '_' 'x'
PayloadBytes == {48, 49, 50, 45, 43, 32, 95, 120}

RECURSIVE BytesUpTo(_)
BytesUpTo(n) ==
    IF n = 0 THEN {<<>>}
    ELSE BytesUpTo(n - 1)
         \cup {p \o <<b>> : p \in {q \in BytesUpTo(n - 1) : Len(q) = n - 1}, b \in PayloadBytes}

\* a few answers of every kind: nothing (timeout), the acknowledgment, the
\* acknowledgment of another address, a truncated acknowledgment, read replies
\* of 10 and 11 bytes ('', '0', '1'), ':01r33=245,\r\n', another echo, a bad
\* number, no CR LF
Replies ==
    {<<>>,
     AckBytes,
     <<58, 48, 53, 111, 107, 13, 10>>,
     <<58, 48, 49, 111, 107, 13>>,
     <<58, 48, 49, 114, 51, 51, 61, 44, 13, 10>>,
     <<58, 48, 49, 114, 51, 51, 61, 48, 44, 13, 10>>,
     <<58, 48, 49, 114, 51, 51, 61, 49, 44, 13, 10>>,
     <<58, 48, 49, 114, 51, 51, 61, 50, 52, 53, 44, 13, 10>>,
     <<58, 48, 55, 114, 51, 48, 61, 50, 52, 53, 44, 13, 10>>,
     <<58, 48, 49, 114, 51, 51, 61, 120, 44, 13, 10>>,
     <<58, 48, 49, 114, 51, 51, 61, 50, 52, 53, 49>>}

\* every header, payload of at most MaxPayload bytes and trailer as well
LongReplies ==
    Replies \cup {h \o p \o t : h \in ReplyHeaders, p \in BytesUpTo(MaxPayload),
                                t \in ReplyTrailers}

(***************************************************************************)
(* The session's state machine.                                            *)
(***************************************************************************)
\* DPM86XX(com_port=None, address=1): the address is stored unchecked; _port
\* exists only when a com_port was given
Init ==
    /\ self_address \in {1, 5, 100}
    /\ self_port \in {"unset", "A"}
    /\ wire = <<>>
    /\ sent = <<>>
    /\ response = <<>>
    /\ call = Called("none", <<>>)
    /\ ret = NoResult

ReadOperation(replies) ==
    \/ get_temperature(replies)
    \/ get_actual_voltage_in_centivolts(replies)
    \/ get_actual_voltage(replies)
    \/ get_actual_current_in_milliamperes(replies)
    \/ get_actual_current(replies)
    \/ get_output_status(replies)
    \/ get_cc_cv_status(replies)
    \/ is_in_cv_mode(replies)
    \/ is_in_cc_mode(replies)

WriteOperation(replies) ==
    \/ set_voltage_in_centivolts(replies)
    \/ set_voltage(replies)
    \/ set_current_in_milliampere(replies)
    \/ set_current(replies)
    \/ set_output_status(replies)
    \/ set_voltage_and_current(replies)

\* the answers a session is given over a sequence of operations: nothing, the
\* acknowledgment, the acknowledgment of address 5, a truncated one,
\* ':01r33=245,\r\n' and ':01r33=x,\r\n'
SessionReplies ==
    {<<>>,
     AckBytes,
     <<58, 48, 53, 111, 107, 13, 10>>,
     <<58, 48, 49, 111, 107, 13>>,
     <<58, 48, 49, 114, 51, 51, 61, 50, 52, 53, 44, 13, 10>>,
     <<58, 48, 49, 114, 51, 51, 61, 120, 44, 13, 10>>}

Next == ReadOperation(SessionReplies) \/ WriteOperation(SessionReplies) \/ set_port

Spec == Init /\ [][Next]_vars

\* the first exchange of a session, a read answered with any of LongReplies
FirstExchange == wire = <<>>

ReplyNext ==
    \/ FirstExchange /\ get_temperature(LongReplies)
    \/ FirstExchange /\ get_actual_voltage_in_centivolts(LongReplies)
    \/ FirstExchange /\ get_actual_voltage(LongReplies)
    \/ FirstExchange /\ get_actual_current_in_milliamperes(LongReplies)
    \/ FirstExchange /\ get_actual_current(LongReplies)
    \/ FirstExchange /\ get_output_status(LongReplies)
    \/ FirstExchange /\ get_cc_cv_status(LongReplies)
    \/ FirstExchange /\ is_in_cv_mode(LongReplies)
    \/ FirstExchange /\ is_in_cc_mode(LongReplies)

ReplySpec == Init /\ [][ReplyNext]_vars

(***************************************************************************)
(* Properties.  The expected bytes are written down independently of the   *)
(* model's formatting operators.                                           *)
(***************************************************************************)
IsDigitByte(b) == b \in 48..57

\* the ASCII digits of a natural number, without padding
RECURSIVE DigitBytes(_)
DigitBytes(n) ==
    IF n < 10 THEN <<48 + n>> ELSE DigitBytes(n \div 10) \o <<48 + (n % 10)>>

\* a number below 100 as exactly two ASCII digits
TwoDigitBytes(n) == <<48 + (n \div 10), 48 + (n % 10)>>

\* ':' AA F MM '=' operands ',' CR LF
ExpectedFrame(address, directionByte, member, operands) ==
    <<58>> \o TwoDigitBytes(address) \o <<directionByte>> \o TwoDigitBytes(member)
           \o <<61>> \o operands \o <<44, 13, 10>>

DirectionByte(function) == IF function = <<"r">> THEN 114 ELSE 119

\* :\d\d[rw]\d\d=\d{1,5}(,\d{1,5})?,\r\n
MatchesCommandRegex(f) ==
    \E n1 \in 1..5, n2 \in 0..5 :
        LET tail == 7 + n1 + (IF n2 > 0 THEN 1 + n2 ELSE 0)
        IN /\ Len(f) = tail + 3
           /\ f[1] = 58
           /\ IsDigitByte(f[2]) /\ IsDigitByte(f[3])
           /\ f[4] \in {114, 119}
           /\ IsDigitByte(f[5]) /\ IsDigitByte(f[6])
           /\ f[7] = 61
           /\ \A i \in 8..(7 + n1) : IsDigitByte(f[i])
           /\ n2 > 0 => /\ f[8 + n1] = 44
                        /\ \A i \in (9 + n1)..tail : IsDigitByte(f[i])
           /\ f[tail + 1] = 44 /\ f[tail + 2] = 13 /\ f[tail + 3] = 10

IsMakeCommand == call.fn = "make_command"

\* the arguments of a make_command call, as the claims name their ranges
ArgAddressOk  == call.args[1] \in 1..99
ArgFunctionOk == call.args[2] = <<"r">> \/ call.args[2] = <<"w">>
ArgMemberOk   == call.args[3] \in 0..99
ArgOperandOk  == call.args[4] \in 0..65536
ArgOperand2Ok == call.args[5] = <<>> \/ call.args[5][1] \in 0..65536
ArgsAllOk     == ArgAddressOk /\ ArgFunctionOk /\ ArgMemberOk /\ ArgOperandOk /\ ArgOperand2Ok

\* C1: for address in 1..99, function 'r' or 'w', function_member in 0..99,
\* operand in 0..65536 and an optional operand2 in 0..65536, make_command
\* returns exactly ':' AA F MM '=' operand [',' operand2] ',' CR LF with AA and
\* MM zero-padded to two digits and the operands unpadded, so the frame
\* matches :\d\d[rw]\d\d=\d{1,5}(,\d{1,5})?,\r\n
C1_FrameFormat ==
    (IsMakeCommand /\ ArgsAllOk) =>
        /\ ret.exc = "none"
        /\ ret.kind = "bytes"
        /\ ret.frame = ExpectedFrame(call.args[1], DirectionByte(call.args[2]), call.args[3],
                          IF call.args[5] = <<>> THEN DigitBytes(call.args[4])
                          ELSE DigitBytes(call.args[4]) \o <<44>> \o DigitBytes(call.args[5][1]))
        /\ MatchesCommandRegex(ret.frame)

\* a one-digit address, the largest operand and a second operand: ':09..=65536,N,\r\n'
C1_Witness ==
    /\ IsMakeCommand /\ ArgsAllOk
    /\ call.args[1] = 9 /\ call.args[3] = 0
    /\ call.args[4] = 65536 /\ call.args[5] = <<12345>>
    /\ ret.frame = <<58, 48, 57>> \o <<DirectionByte(call.args[2])>> \o <<48, 48, 61>>
                   \o <<54, 53, 53, 51, 54, 44, 49, 50, 51, 52, 53, 44, 13, 10>>

\* C2: make_command raises ValueError, and returns no frame, exactly when the
\* address is outside 1..99, the function member outside 0..99, the operand
\* outside 0..65536, a given operand2 outside 0..65536, or the function is not
\* 'r' or 'w'; so it fails for address 0 and 100, member 100, operand 65537,
\* and accepts operand 65536
C2_ValidationIff ==
    IsMakeCommand =>
        /\ ret.exc \in {"none", "ValueError"}
        /\ (ret.exc = "ValueError") <=> ~ArgsAllOk
        /\ ret.exc = "ValueError" => (ret.kind = "None" /\ ret.frame = <<>>)
        /\ (call.args[1] \in {0, 100} \/ call.args[3] = 100 \/ call.args[4] = 65537)
               => ret.exc = "ValueError"
        /\ (ArgAddressOk /\ ArgFunctionOk /\ ArgMemberOk /\ ArgOperand2Ok
               /\ call.args[4] = 65536) => ret.exc = "none"

\* operand 65536 is accepted, with every other argument valid
C2_Witness ==
    /\ IsMakeCommand /\ ArgsAllOk
    /\ call.args[4] = 65536 /\ call.args[5] = <<>>
    /\ ret.exc = "none" /\ ret.kind = "bytes"

\* C3: with several invalid arguments the error is that of the first failing
\* check in the order address, function member, operand, operand2, function
C3_FirstFailingCheck ==
    IsMakeCommand =>
        /\ ~ArgAddressOk => ret.msg = "Address must be in the range of 1 - 99."
        /\ (ArgAddressOk /\ ~ArgMemberOk)
               => ret.msg = "Function member must be in the range of 0 - 99."
        /\ (ArgAddressOk /\ ArgMemberOk /\ ~ArgOperandOk)
               => ret.msg = "Operand must be in the range of 0 - 65536."
        /\ (ArgAddressOk /\ ArgMemberOk /\ ArgOperandOk /\ ~ArgOperand2Ok)
               => ret.msg = "2nd operand must be in the range of 0 - 65536."
        /\ (ret.msg = "Function must be either 'r' or 'w'.")
               <=> (ArgAddressOk /\ ArgMemberOk /\ ArgOperandOk /\ ArgOperand2Ok
                      /\ ~ArgFunctionOk)

\* address 0 and function member 100 and a bad function: the address error wins
C3_Witness ==
    /\ IsMakeCommand
    /\ call.args[1] = 0 /\ call.args[3] = 100 /\ ~ArgFunctionOk
    /\ ret.exc = "ValueError"
    /\ ret.msg = "Address must be in the range of 1 - 99."

(***************************************************************************)
(* The typed builders.  A float argument is the decimal literal            *)
(* (-1)^neg * n / 10^k; the properties compute with it exactly.            *)
(***************************************************************************)
BuilderAddressOk == call.args[1] \in 1..99

\* n / 10^k times c is a whole number
ExactMultiple(x, c) == (x.n * c) % Pow10(x.k) = 0

\* that whole number
ExactScaled(x, c) == (x.n * c) \div Pow10(x.k)

\* the quantity is below zero
BelowZero(x) == x.neg /\ x.n > 0

\* the quantity, in units of 1/c, is above max
AboveMax(x, c, max) == ~x.neg /\ x.n * c > max * Pow10(x.k)

\* C4: make_write_voltage_command takes an int c in 0..6000 as centivolts,
\* unconverted, and a float v as volts, converted to v * 100 centivolts; both
\* give ':AAw10=<centivolts>,\r\n' (stated here for the floats whose v * 100 is
\* a whole number of centivolts in 0..6000, such as 12.34)
C4_DualUnitVoltage ==
    (call.fn = "make_write_voltage_command" /\ BuilderAddressOk) =>
        LET v == call.args[2]
        IN /\ (v.t = "int" /\ ~v.neg /\ v.n <= 6000)
                  => ret.frame = ExpectedFrame(call.args[1], 119, 10, DigitBytes(v.n))
           /\ (v.t = "float" /\ ~BelowZero(v) /\ ~AboveMax(v, 100, 6000)
                  /\ ExactMultiple(v, 100))
                  => ret.frame = ExpectedFrame(call.args[1], 119, 10,
                                               DigitBytes(ExactScaled(v, 100)))

\* C5: make_write_voltage_command raises ValueError, and returns no frame, for
\* every int below 0 or above 6000 centivolts and every float below 0.00 or
\* above 60.00 volts, also just outside the range (-0.005, 60.005)
C5_VoltageOutOfRangeRaises ==
    (call.fn = "make_write_voltage_command" /\ BuilderAddressOk) =>
        LET v == call.args[2]
        IN (BelowZero(v) \/ AboveMax(v, IF v.t = "float" THEN 100 ELSE 1, 6000))
               => (ret.exc = "ValueError" /\ ret.frame = <<>>)

\* C6: make_write_current_command computes m as x for an int and x * 1000 for a
\* float; 0 <= m <= 24000 gives ':AAw11=<m>,\r\n', a negative m or m > 24000
\* raises ValueError
C6_DualUnitCurrent ==
    (call.fn = "make_write_current_command" /\ BuilderAddressOk) =>
        LET x == call.args[2]
            c == IF x.t = "float" THEN 1000 ELSE 1
        IN /\ (~BelowZero(x) /\ ~AboveMax(x, c, 24000) /\ ExactMultiple(x, c))
                  => ret.frame = ExpectedFrame(call.args[1], 119, 11,
                                               DigitBytes(ExactScaled(x, c)))
           /\ (BelowZero(x) \/ AboveMax(x, c, 24000)) => ret.exc = "ValueError"

\* C7: make_write_output_status_command sends operand 0 for False and the int
\* 0, operand 1 for True and every other int (negative or above 65536 too),
\* never another operand, and never raises for a valid address
C7_StatusCanonical ==
    (call.fn = "make_write_output_status_command" /\ BuilderAddressOk) =>
        /\ ret.exc = "none"
        /\ ret.frame = ExpectedFrame(call.args[1], 119, 12,
                                     IF call.args[2].n = 0 THEN <<48>> ELSE <<49>>)

\* a status above 65536 is sent as 1
C7_Witness ==
    /\ call.fn = "make_write_output_status_command"
    /\ call.args[1] = 1
    /\ call.args[2].t = "int" /\ ~call.args[2].neg /\ call.args[2].n = 65537
    /\ ret.frame = <<58, 48, 49, 119, 49, 50, 61, 49, 44, 13, 10>>

\* C8: make_write_voltage_and_current_command returns
\* ':AAw20=<centivolts>,<milliamperes>,\r\n' and raises ValueError when the
\* voltage is outside 0..6000 centivolts or the current outside 0..24000
\* milliamperes, even when the other component is valid
C8_VoltageAndCurrent ==
    (call.fn = "make_write_voltage_and_current_command" /\ BuilderAddressOk) =>
        LET v  == call.args[2]
            x  == call.args[3]
            cv == IF v.t = "float" THEN 100 ELSE 1
            cx == IF x.t = "float" THEN 1000 ELSE 1
            vBad == BelowZero(v) \/ AboveMax(v, cv, 6000)
            xBad == BelowZero(x) \/ AboveMax(x, cx, 24000)
        IN /\ (vBad \/ xBad) => (ret.exc = "ValueError" /\ ret.frame = <<>>)
           /\ (~vBad /\ ~xBad /\ ExactMultiple(v, cv) /\ ExactMultiple(x, cx))
                  => ret.frame = ExpectedFrame(call.args[1], 119, 20,
                                    DigitBytes(ExactScaled(v, cv)) \o <<44>>
                                    \o DigitBytes(ExactScaled(x, cx)))

\* the function member each typed builder must use
RegistryMember(fn) ==
    CASE fn = "make_read_maximum_output_voltage_command" -> 0
      [] fn = "make_read_maximum_output_current_command" -> 1
      [] fn = "make_read_voltage_setting_command" -> 10
      [] fn = "make_read_current_setting_command" -> 11
      [] fn = "make_read_output_status_command" -> 12
      [] fn = "make_read_actual_voltage_command" -> 30
      [] fn = "make_read_actual_current_command" -> 31
      [] fn = "make_read_cc_cv_status_command" -> 32
      [] fn = "make_read_temperature_command" -> 33
      [] fn = "make_write_voltage_command" -> 10
      [] fn = "make_write_current_command" -> 11
      [] fn = "make_write_output_status_command" -> 12
      [] fn = "make_write_voltage_and_current_command" -> 20

ReadBuilders ==
    {"make_read_maximum_output_voltage_command", "make_read_maximum_output_current_command",
     "make_read_voltage_setting_command", "make_read_current_setting_command",
     "make_read_output_status_command", "make_read_actual_voltage_command",
     "make_read_actual_current_command", "make_read_cc_cv_status_command",
     "make_read_temperature_command"}

WriteBuilders ==
    {"make_write_voltage_command", "make_write_current_command",
     "make_write_output_status_command", "make_write_voltage_and_current_command"}

\* C9: every typed read builder returns ':AAr<MM>=0,\r\n' for an address in
\* 1..99, with MM = 00, 01, 10, 11, 12, 30, 31, 32, 33 as in the registry; the
\* write builders use 10, 11, 12 and 20, always with direction 'w'
C9_Registry ==
    /\ (call.fn \in ReadBuilders /\ BuilderAddressOk)
           => /\ ret.exc = "none"
              /\ ret.frame = ExpectedFrame(call.args[1], 114, RegistryMember(call.fn), <<48>>)
    /\ (call.fn \in WriteBuilders /\ ret.exc = "none")
           => /\ Len(ret.frame) >= 7
              /\ SubSeq(ret.frame, 1, 7)
                   = <<58>> \o TwoDigitBytes(call.args[1]) \o <<119>>
                     \o TwoDigitBytes(RegistryMember(call.fn)) \o <<61>>

\* the temperature read of device 42 is ':42r33=0,\r\n'
C9_Witness ==
    /\ call.fn = "make_read_temperature_command"
    /\ call.args[1] = 42
    /\ ret.frame = <<58, 52, 50, 114, 51, 51, 61, 48, 44, 13, 10>>

(***************************************************************************)
(* The session's read operations.                                          *)
(***************************************************************************)
NumericReads ==
    {"get_temperature", "get_actual_voltage_in_centivolts",
     "get_actual_current_in_milliamperes", "get_output_status", "get_cc_cv_status"}

\* the operation wrote its request and read a response
Exchanged == wire # <<>> /\ ret.exc # "AttributeError"

\* the bytes of the response from offset 7 up to, excluding, the last 3
ResponseNumber == [i \in 1..(Len(response) - 10) |-> response[i + 7]]

\* the value of a run of ASCII digits, read left to right
RECURSIVE ValueFrom(_, _)
ValueFrom(p, acc) == IF p = <<>> THEN acc ELSE ValueFrom(Tail(p), 10 * acc + (p[1] - 48))

\* what the operation returns for the parsed integer n
ReturnsParsed(n) ==
    CASE call.fn = "get_output_status" -> ret.kind = "bool" /\ ret.flag = (n = 1)
      [] call.fn = "get_cc_cv_status"  -> ret.kind = "bool" /\ ret.flag = (n = 0)
      [] OTHER                         -> ret.kind = "int" /\ ret.num = n

\* C10: a read operation fails with IOError when the response is shorter than
\* 11 bytes (an empty one and the 7-byte ':01ok\r\n' included); otherwise it
\* parses the bytes from offset 7 up to the last 3 as a decimal integer and
\* fails with ValueError when they are none; ':01r33=245,\r\n' gives 245
C10_ReadResponse ==
    (call.fn \in NumericReads /\ Exchanged) =>
        /\ Len(response) < 11 <=> ret.exc = "IOError"
        /\ response \in {<<>>, AckBytes} => ret.exc = "IOError"
        /\ Len(response) >= 11 =>
             LET p == ResponseNumber
             IN /\ ret.exc \in {"none", "ValueError"}
                /\ (\A i \in 1..Len(p) : IsDigitByte(p[i]))
                       => (ret.exc = "none" /\ ReturnsParsed(ValueFrom(p, 0)))
                /\ (Len(p) > 1 /\ p[1] = 45 /\ \A i \in 2..Len(p) : IsDigitByte(p[i]))
                       => (ret.exc = "none" /\ ReturnsParsed(-ValueFrom(Tail(p), 0)))
                /\ (\/ \A i \in 1..Len(p) : ~IsDigitByte(p[i])
                    \/ \E i \in 1..Len(p) : ~IsDigitByte(p[i]) /\ p[i] \notin {43, 45, 32, 95})
                       => ret.exc = "ValueError"
        /\ (call.fn = "get_temperature"
               /\ response = <<58, 48, 49, 114, 51, 51, 61, 50, 52, 53, 44, 13, 10>>)
               => (ret.exc = "none" /\ ret.num = 245)

\* the temperature read answered with ':01r33=245,\r\n'
C10_Witness ==
    /\ call.fn = "get_temperature"
    /\ Exchanged
    /\ response = <<58, 48, 49, 114, 51, 51, 61, 50, 52, 53, 44, 13, 10>>
    /\ ret.kind = "int" /\ ret.num = 245

(***************************************************************************)
(* The session's operations: acknowledgments, preconditions and I/O.       *)
(***************************************************************************)
WriteOperations ==
    {"set_voltage_in_centivolts", "set_voltage", "set_current_in_milliampere",
     "set_current", "set_output_status", "set_voltage_and_current"}

ReadOperations ==
    {"get_temperature", "get_actual_voltage_in_centivolts", "get_actual_voltage",
     "get_actual_current_in_milliamperes", "get_actual_current", "get_output_status",
     "get_cc_cv_status", "is_in_cv_mode", "is_in_cc_mode"}

IOOperations == WriteOperations \cup ReadOperations

\* the quantity x, in physical units, lies in 0..max/c
PhysicalValid(x, c, max) == ~BelowZero(x) /\ ~AboveMax(x, c, max)

\* an int is in wire units and lies in 0..max, a float is in physical units
DualUnitValid(x, c, max) ==
    IF x.t = "float" THEN PhysicalValid(x, c, max) ELSE IntValue(x) \in 0..max

\* the arguments of the write operation c are in the documented range
ValidWriteArgs(c) ==
    CASE c.fn = "set_voltage_in_centivolts"  -> DualUnitValid(c.args[1], 100, 6000)
      [] c.fn = "set_voltage"                -> PhysicalValid(c.args[1], 100, 6000)
      [] c.fn = "set_current_in_milliampere" -> DualUnitValid(c.args[1], 1000, 24000)
      [] c.fn = "set_current"                -> PhysicalValid(c.args[1], 1000, 24000)
      [] c.fn = "set_output_status"          -> TRUE
      [] c.fn = "set_voltage_and_current"    -> /\ DualUnitValid(c.args[1], 100, 6000)
                                                /\ DualUnitValid(c.args[2], 1000, 24000)
      [] OTHER                               -> FALSE

\* the step is a call of an I/O operation on a session bound to a channel
BoundCall == call'.fn \in IOOperations /\ self_port # "unset"

\* the step wrote one frame and read one response on the bound channel
OneExchange ==
    wire' = wire \o << <<self_port, "write">>, <<self_port, "read_until">> >>

\* C11: a write operation with valid parameters, on a bound session with an
\* address in 1..99, returns True exactly when the response is ':01ok\r\n'
\* byte for byte, whatever the address and the value written, and False
\* without an error for every other response (':05ok\r\n', empty, truncated)
C11_AckLiteral ==
    [][(/\ BoundCall
        /\ call'.fn \in WriteOperations
        /\ self_address \in 1..99
        /\ ValidWriteArgs(call'))
          => /\ OneExchange
             /\ ret' = ReturnsBool(response' = AckBytes)]_vars

\* the session of address 5 wrote a voltage, read ':01ok\r\n' and returned
\* True
C11_Witness ==
    /\ call.fn = "set_voltage"
    /\ self_address = 5
    /\ response = AckBytes
    /\ sent # <<>>
    /\ ret = ReturnsBool(TRUE)

\* C12: on a session built without a port and never given one, every I/O
\* operation fails with the not-connected error the docstrings announce
\* (AssertionError), for every argument, and writes and reads nothing
C12_NotConnected ==
    (call.fn \in IOOperations /\ self_port = "unset") =>
        /\ ret.exc = "AssertionError"
        /\ wire = <<>> /\ sent = <<>> /\ response = <<>>

\* the arguments of the write operation c are outside the documented range
OutOfRangeArgs(c) == c.fn \in WriteOperations /\ ~ValidWriteArgs(c)

\* C13: on a bound session, an operation called with a voltage outside
\* 0..6000 centivolts or a current outside 0..24000 milliamperes, or on a
\* session whose address is outside 1..99, raises ValueError and the channel
\* sees no write and no read_until for it
C13_ValidationBeforeIO ==
    [][(BoundCall /\ (self_address \notin 1..99 \/ OutOfRangeArgs(call')))
          => /\ ret'.exc = "ValueError"
             /\ UNCHANGED <<wire, sent, response>>]_vars

\* the same, leaving out the floats that lie less than one wire unit outside
\* the range
ValidationBeforeIO_WholeUnits ==
    [][(/\ BoundCall
        /\ self_address \notin 1..99 \/ OutOfRangeArgs(call')
        /\ call'.args # <<FloatArg(TRUE, 5, 3)>>)
          => /\ ret'.exc = "ValueError"
             /\ UNCHANGED <<wire, sent, response>>]_vars

\* the messages of the ValueErrors the builders raise
ValidationMessages ==
    {"Address must be in the range of 1 - 99.",
     "Voltage must be in the range of 0.00 to 60.00 V",
     "Current must be in the range of 0.000 to 24.000 A"}

\* the operation of this step raised at the precondition or at validation
FailedBeforeIO ==
    \/ ret'.exc = "AttributeError"
    \/ ret'.exc = "ValueError" /\ ret'.msg \in ValidationMessages

\* the channel log is a run of (write, read_until) pairs, each pair on one
\* channel
PairedLog ==
    /\ Len(wire) % 2 = 0
    /\ \A i \in 1..Len(wire) :
          IF i % 2 = 1
          THEN wire[i][2] = "write" /\ wire[i + 1] = <<wire[i][1], "read_until">>
          ELSE wire[i][2] = "read_until"

\* the number of events of one kind in the channel log
Count(kind) == Cardinality({i \in 1..Len(wire) : wire[i][2] = kind})

\* C14: an operation that passes the bound-channel precondition and the
\* parameter validation does exactly one write of one request frame and then
\* exactly one read_until, whatever the outcome (value, False, IOError,
\* ValueError of int()), the convenience variants included; an operation
\* that does not pass does no I/O; so reads equal writes after any sequence
\* of operations and no read comes before its write
C14_OneWriteOneRead ==
    /\ [](PairedLog /\ Count("read_until") = Count("write"))
    /\ [][call'.fn \in IOOperations =>
            IF FailedBeforeIO
            THEN UNCHANGED <<wire, sent, response>>
            ELSE /\ OneExchange
                 /\ self_port # "unset"
                 /\ Len(sent') >= 11 /\ sent'[1] = 58
                 /\ ret'.exc \in {"none", "IOError", "ValueError"}]_vars
    /\ [][(BoundCall /\ call'.fn \in ReadOperations /\ self_address \in 1..99)
            => ~FailedBeforeIO]_vars

\* is_in_cc_mode, the second operation on channel A, was answered by a reply
\* too short to parse: two writes and two reads, in pairs
C14_Witness ==
    /\ call.fn = "is_in_cc_mode"
    /\ ret.exc = "IOError"
    /\ wire = << <<"A", "write">>, <<"A", "read_until">>,
                 <<"A", "write">>, <<"A", "read_until">> >>

\* C15: round trip: for a valid address, direction and function member and an
\* operand in 0..65536 without a second operand, the bytes of the frame
\* make_command returns, from offset 7 up to but excluding the last 3, parse
\* as a decimal integer to the operand
C15_RoundTrip ==
    (IsMakeCommand /\ ArgsAllOk /\ call.args[5] = <<>>) =>
        /\ ret.exc = "none"
        /\ LET parsed == ParseInt(Payload(ret.frame))
           IN parsed.ok /\ parsed.val = call.args[4]
        /\ NumericReply(ret.frame) = ReturnsInt(call.args[4])

\* the frame of operand 65536 parsed back to 65536
C15_Witness ==
    /\ IsMakeCommand /\ ArgsAllOk /\ call.args[5] = <<>>
    /\ call.args[4] = 65536
    /\ Len(ret.frame) = 15
    /\ ParseInt(Payload(ret.frame)).val = 65536

\* what int() makes of the response's bytes from offset 7 up to the last 3
Parsed == ParseInt(Payload(response))

\* the response is long enough and its number parses
Parseable == Len(response) >= 11 /\ Parsed.ok

\* C16: get_cc_cv_status and is_in_cv_mode return True exactly when the
\* integer parsed from the response to the function-member-32 read is 0 (CV),
\* is_in_cc_mode returns the negation, True for every non-zero value; so on
\* one parseable response exactly one of is_in_cv_mode, is_in_cc_mode is True
C16_CcCvStatus ==
    (call.fn \in {"get_cc_cv_status", "is_in_cv_mode", "is_in_cc_mode"} /\ Exchanged) =>
        /\ sent = ExpectedFrame(self_address, 114, 32, <<48>>)
        /\ Parseable =>
             /\ ret.exc = "none" /\ ret.kind = "bool"
             /\ call.fn # "is_in_cc_mode" => ret.flag = (Parsed.val = 0)
             /\ call.fn = "is_in_cc_mode" => ret.flag = (Parsed.val # 0)
             /\ CcCvReply(response).flag # NotCcCvReply(response).flag
             /\ ret.flag = IF call.fn = "is_in_cc_mode"
                           THEN NotCcCvReply(response).flag
                           ELSE CcCvReply(response).flag

\* is_in_cc_mode answered with ':07r30=-2,\r\n' returned True
C16_Witness ==
    /\ call.fn = "is_in_cc_mode"
    /\ Exchanged
    /\ response = <<58, 48, 55, 114, 51, 48, 61, 45, 50, 44, 13, 10>>
    /\ ret = ReturnsBool(TRUE)

\* C17: get_output_status returns True exactly when the integer parsed from
\* the response to the function-member-12 read is 1 and False for every other
\* integer (0, 2, negative), unlike the write side, where every non-zero
\* integer is sent as 1
C17_OutputStatusIsOne ==
    (call.fn = "get_output_status" /\ Exchanged) =>
        /\ sent = ExpectedFrame(self_address, 114, 12, <<48>>)
        /\ Parseable => ret = ReturnsBool(Parsed.val = 1)
        /\ StatusOperand(IntArg(2)) = 1 /\ StatusOperand(IntArg(-1)) = 1

\* get_output_status answered with ':01r33=2,\r\n' returned False
C17_Witness ==
    /\ call.fn = "get_output_status"
    /\ Exchanged
    /\ response = <<58, 48, 49, 114, 51, 51, 61, 50, 44, 13, 10>>
    /\ ret = ReturnsBool(FALSE)

\* the step called fn with int arguments on a bound session with a valid
\* address
BoundIntCall(fn) ==
    /\ BoundCall
    /\ self_address \in 1..99
    /\ call'.fn = fn
    /\ \A i \in 1..Len(call'.args) : call'.args[i].t = "int"

\* the value of the i-th argument of the step's call
Arg(i) == IntValue(call'.args[i])

\* the step did one exchange and wrote the write request of member with
\* these operands
Wrote(member, operands) ==
    /\ OneExchange
    /\ sent' = ExpectedFrame(self_address, 119, member, operands)

\* C18: set_voltage and set_current take their argument in physical units
\* also when it is an int: set_voltage(12) writes ':AAw10=1200,\r\n' and
\* set_current(2) writes ':AAw11=2000,\r\n'; set_voltage_in_centivolts,
\* set_current_in_milliampere and set_voltage_and_current pass an int through
\* as wire units
C18_PhysicalUnits ==
    [][/\ (BoundIntCall("set_voltage") /\ Arg(1) \in 0..60)
             => Wrote(10, DigitBytes(Arg(1) * 100))
       /\ (BoundIntCall("set_current") /\ Arg(1) \in 0..24)
             => Wrote(11, DigitBytes(Arg(1) * 1000))
       /\ (BoundIntCall("set_voltage_in_centivolts") /\ Arg(1) \in 0..6000)
             => Wrote(10, DigitBytes(Arg(1)))
       /\ (BoundIntCall("set_current_in_milliampere") /\ Arg(1) \in 0..24000)
             => Wrote(11, DigitBytes(Arg(1)))
       /\ (/\ BoundIntCall("set_voltage_and_current")
           /\ Arg(1) \in 0..6000 /\ Arg(2) \in 0..24000)
             => Wrote(20, DigitBytes(Arg(1)) \o <<44>> \o DigitBytes(Arg(2)))
       /\ (BoundIntCall("set_voltage") /\ Arg(1) > 60)
             => ret'.exc = "ValueError" /\ UNCHANGED wire
       /\ (BoundIntCall("set_current") /\ Arg(1) > 24)
             => ret'.exc = "ValueError" /\ UNCHANGED wire]_vars

\* set_current(2) on the session of address 5 wrote ':05w11=2000,\r\n'
C18_Witness ==
    /\ call = Called("set_current", <<IntArg(2)>>)
    /\ self_address = 5
    /\ sent = <<58, 48, 53, 119, 49, 49, 61, 50, 48, 48, 48, 44, 13, 10>>
    /\ ret.kind = "bool"

\* the events this step added to the channel log
NewEvents == SubSeq(wire', Len(wire) + 1, Len(wire'))

\* C19: set_port binds the session to the channel it is given, whether the
\* session had a channel or none; from then on every operation writes to and
\* reads from that channel only, so a channel bound earlier sees no further
\* event, and a session built without a port does its exchanges once set_port
\* was called
C19_Rebinding ==
    [][/\ Len(wire') >= Len(wire) /\ SubSeq(wire', 1, Len(wire)) = wire
       /\ \A i \in 1..Len(NewEvents) : NewEvents[i][1] = self_port'
       /\ call'.fn = "set_port" =>
             /\ self_port' = call'.args[1]
             /\ self_port' \in Channels
             /\ UNCHANGED wire
       /\ (call'.fn \in ReadOperations /\ self_port' \in Channels /\ self_address \in 1..99)
             => Len(NewEvents) = 2]_vars

\* after an exchange on channel A and set_port(B), get_temperature wrote to
\* and read from B only
C19_Witness ==
    /\ call.fn = "get_temperature"
    /\ self_port = "B"
    /\ wire = << <<"A", "write">>, <<"A", "read_until">>,
                 <<"B", "write">>, <<"B", "read_until">> >>

\* C20: no operation changes the session's address, and none but set_port
\* changes the channel binding, whether it succeeds, returns False or raises;
\* every frame written carries the address as its two-digit field; a session
\* built with an address outside 1..99 exists and each operation on it (once
\* bound) fails with ValueError
C20_FixedAddress ==
    [][/\ self_address' = self_address
       /\ self_port' # self_port => call'.fn = "set_port"
       /\ wire' # wire => SubSeq(sent', 1, 3) = <<58>> \o TwoDigitBytes(self_address)
       /\ (BoundCall /\ self_address \notin 1..99) =>
             /\ ret'.exc = "ValueError" /\ ret'.msg \in ValidationMessages
             /\ UNCHANGED <<wire, sent, response>>]_vars

\* the bound session of address 100 failed set_output_status with ValueError
C20_Witness ==
    /\ self_address = 100
    /\ self_port = "B"
    /\ call.fn = "set_output_status"
    /\ ret.exc = "ValueError"
    /\ wire = <<>>

(***************************************************************************)
(* What a read operation looks at in the response.                         *)
(***************************************************************************)
\* how each read operation interprets the response it read
ResultOf(fn, r) ==
    CASE fn = "get_actual_voltage" -> QuotientReply(r, 2)
      [] fn = "get_actual_current" -> QuotientReply(r, 3)
      [] fn = "get_output_status"  -> OutputStatusReply(r)
      [] fn \in {"get_cc_cv_status", "is_in_cv_mode"} -> CcCvReply(r)
      [] fn = "is_in_cc_mode"      -> NotCcCvReply(r)
      [] OTHER                     -> NumericReply(r)

\* the two results are the same value or the same kind of error
SameResult(a, b) ==
    /\ a.exc = b.exc /\ a.kind = b.kind
    /\ a.num = b.num /\ a.flag = b.flag /\ a.flt = b.flt

\* other first 7 bytes: the modelled echoes and '5555555'
OtherHeaders == ReplyHeaders \cup {<<53, 53, 53, 53, 53, 53, 53>>}

\* other last 3 bytes: the modelled trailers and '123'
OtherTrailers == ReplyTrailers \cup {<<49, 50, 51>>}

\* C21: the outcome of a read operation depends only on the length of the
\* response and on its bytes from offset 7 to length - 3: a response of the
\* same length with other first 7 and last 3 bytes gives the same value or
\* the same kind of error, one shorter than 11 bytes always IOError; so
\* get_temperature answered with ':07r30=245,\r\n' returns 245
C21_HeaderTrailerUnchecked ==
    (call.fn \in ReadOperations /\ Exchanged) =>
        /\ SameResult(ret, ResultOf(call.fn, response))
        /\ Len(response) >= 11 =>
              \A h \in OtherHeaders, t \in OtherTrailers :
                  SameResult(ResultOf(call.fn, h \o Payload(response) \o t), ret)
        /\ Len(response) < 11 =>
              /\ ret.exc = "IOError"
              /\ \A r \in Replies :
                    Len(r) = Len(response) => SameResult(ResultOf(call.fn, r), ret)
        /\ (call.fn = "get_temperature"
               /\ response = <<58, 48, 55, 114, 51, 48, 61, 50, 52, 53, 44, 13, 10>>)
               => ret = ReturnsInt(245)

\* get_temperature answered with ':07r30=245,\r\n', the echo of address 7 and
\* function member 30, returned 245
C21_Witness ==
    /\ call.fn = "get_temperature"
    /\ Exchanged
    /\ sent = <<58, 48, 49, 114, 51, 51, 61, 48, 44, 13, 10>>
    /\ response = <<58, 48, 55, 114, 51, 48, 61, 50, 52, 53, 44, 13, 10>>
    /\ ret = ReturnsInt(245)

====
